---- MODULE Spec2Model ----
(***************************************************************************)
(* Model of rust-audio-recorder (src/main.rs): the recording loop of main, *)
(* the capture callback write_input_data running on the stream's thread,   *)
(* and the retention code (get_folder_size, get_oldest_directory,          *)
(* get_oldest_file_in_directory, delete_oldest_file, ensure_folder_size)   *)
(* acting on the storage tree BASE_FOLDER/<date>/<HH-MM>.wav.              *)
(*                                                                         *)
(* Sizes are counted in abstract units; the wall clock is counted in       *)
(* minutes, a day has MinutesPerDay of them.  Modification times are       *)
(* values of a strictly increasing stamp, one per filesystem mutation.     *)
(***************************************************************************)
EXTENDS Integers, Sequences, FiniteSets, TLC

\* ---------------------------------------------------------------- bounds
MaxSegments == 2      \* recording-loop iterations explored
MaxFrames == 2        \* frames the device delivers in a run
FrameLen == 2         \* samples per frame (input.len())
MinutesPerDay == 2    \* length of a day of the model's wall clock

\* ------------------------------------------------------- program constants
\* const MAX_FOLDER_SIZE (2 GiB in the source), in the model's size unit
MAX_FOLDER_SIZE == 8
\* what du -sb adds for a directory itself (its apparent size)
DirSize == 1
\* the provisional RIFF header hound writes at WavWriter::create
HeaderSize == 1
\* the day on which the process is started; buckets 0 and 1 are older days
StartDay == 2

VARIABLES
    pc,          \* position of main in its loop
    now,         \* wall clock (Local::now()), in minutes
    stamp,       \* next modification time the filesystem hands out
    dateFolder,  \* date_folder / save_folder of this iteration (a day)
    filename,    \* filename of this iteration: <<day, minute>>
    dirs,        \* date buckets under BASE_FOLDER: day -> mtime
    files,       \* wav files: <<day, minute>> -> [mtime, size]
    rootExtra,   \* bytes of non-directory entries directly under BASE_FOLDER
    segs,        \* the WavWriters created so far: [path, state, samples, fin]
    slot,        \* per iteration, the Option in Arc<Mutex<Option<WavWriter>>>
    lock,        \* per iteration, who holds that Mutex
    streamOn,    \* main owns a playing cpal Stream
    cbLive,      \* the stream's callback thread is still able to run
    dropJoins,   \* backend property: drop(stream) joins the callback thread
    cbPc,        \* position of the callback: idle, locked (or waiting)
    cbArc,       \* the Arc the callback closure captured (writer_2)
    cbFrame,     \* the frame the running invocation was handed
    cbIdx,       \* index of the next sample of that frame
    nextFrame,   \* number of the next frame the device delivers
    dropped,     \* frames whose invocation wrote nothing: <<frame, why>>
    deleted,     \* log of remove_file calls: [path, mtime, tick, used]
    err          \* the error that ended main: none, du, evict or create

vars == <<pc, now, stamp, dateFolder, filename, dirs, files, rootExtra, segs,
          slot, lock, streamOn, cbLive, dropJoins, cbPc, cbArc, cbFrame,
          cbIdx, nextFrame, dropped, deleted, err>>

mainVars == <<pc, now, stamp, dateFolder, filename, dirs, files, rootExtra,
              deleted, err>>
cbVars == <<cbPc, cbFrame, cbIdx, nextFrame, dropped>>

\* ------------------------------------------------------------ wall clock
\* Local::now().format("%Y-%m-%d")
DateOf(t) == t \div MinutesPerDay
\* Local::now().format("%H-%M")
TimeOf(t) == t % MinutesPerDay
MaxNow == (StartDay + 2) * MinutesPerDay

\* ------------------------------------------------------------ filesystem
Without(f, k) == [x \in (DOMAIN f) \ {k} |-> f[x]]
With(f, k, v) == [x \in (DOMAIN f) \cup {k} |-> IF x = k THEN v ELSE f[x]]

RECURSIVE SumSizes(_, _)
SumSizes(fs, S) ==
    IF S = {} THEN 0
    ELSE LET p == CHOOSE x \in S : TRUE
         IN fs[p].size + SumSizes(fs, S \ {p})

\* du -sb BASE_FOLDER
DuSb(ds, fs, extra) ==
    DirSize + extra + DirSize * Cardinality(DOMAIN ds) + SumSizes(fs, DOMAIN fs)
get_folder_size == DuSb(dirs, files, rootExtra)

\* the candidates sort_by_key(modified) can put first (read_dir order is
\* arbitrary, the sort is stable)
get_oldest_directory(ds) ==
    {d \in DOMAIN ds : \A e \in DOMAIN ds : ds[d] <= ds[e]}

FilesIn(fs, d) == {p \in DOMAIN fs : p[1] = d}
get_oldest_file_in_directory(fs, d) ==
    {p \in FilesIn(fs, d) : \A q \in FilesIn(fs, d) : fs[p].mtime <= fs[q].mtime}

\* --------------------------------------------------------------- segments
Some == "Some"
None == "None"
NewWriter(path) == [path |-> path, state |-> "Open", samples |-> <<>>, fin |-> 0]
OpenSegs == {i \in 1..Len(segs) : segs[i].state = "Open"}
cur == Len(segs)

\* ---------------------------------------------------------- initial state
\* The buckets of two earlier days as earlier runs of the program left them:
\* bucket k holds n files named 00-00, 00-01, ... written in that order, and
\* its own mtime is that of the last entry created in it, or, for the older
\* bucket, later than the other bucket's when a retention pass removed an
\* entry from it since (touched).  Under the root there may also be entries
\* that are no directories (rootExtra bytes of them).
OldDays == {0, 1}
RootExtras == {0, 1, 2, MAX_FOLDER_SIZE}
BucketBase(d) == 1 + 5 * d
OldFiles(n0, n1) ==
    {<<0, m>> : m \in 0..(n0 - 1)} \cup {<<1, m>> : m \in 0..(n1 - 1)}
Count(n0, n1, d) == IF d = 0 THEN n0 ELSE n1

Init ==
    /\ pc = "date"
    /\ now = StartDay * MinutesPerDay
    /\ stamp = 20
    /\ dateFolder = StartDay
    /\ filename = <<StartDay, 0>>
    /\ \E present \in SUBSET OldDays, n0 \in 0..2, n1 \in 0..2, touched \in SUBSET {0} :
         /\ (0 \notin present) => (n0 = 0 /\ 0 \notin touched)
         /\ (1 \notin present) => (n1 = 0)
         /\ dirs = [d \in present |->
                      IF d \in touched THEN 12 + d
                      ELSE BucketBase(d) + 2 * Count(n0, n1, d) - (IF Count(n0, n1, d) = 0 THEN 0 ELSE 1)]
         /\ files = [p \in OldFiles(n0, n1) |->
                      [mtime |-> BucketBase(p[1]) + 2 * p[2] + 2, size |-> 2]]
    /\ rootExtra \in RootExtras
    /\ segs = <<>>
    /\ slot = <<>>
    /\ lock = <<>>
    /\ streamOn = FALSE
    /\ cbLive = FALSE
    /\ dropJoins \in BOOLEAN
    /\ cbPc = "idle"
    /\ cbArc = 0
    /\ cbFrame = 0
    /\ cbIdx = 0
    /\ nextFrame = 1
    /\ dropped = {}
    /\ deleted = <<>>
    /\ err = "none"

\* ------------------------------------------------------- main, lines 178-244
\* L179-183: date_folder from the clock; create the bucket when it is absent
ReadDate ==
    /\ pc = "date"
    /\ Len(segs) < MaxSegments
    /\ dateFolder' = DateOf(now)
    /\ IF DateOf(now) \in DOMAIN dirs
         THEN UNCHANGED <<dirs, stamp>>
         ELSE /\ dirs' = With(dirs, DateOf(now), stamp)
              /\ stamp' = stamp + 1
    /\ pc' = "time"
    /\ UNCHANGED <<now, filename, files, rootExtra, deleted, segs, slot, lock,
                   streamOn, cbLive, dropJoins, cbArc, err>>
    /\ UNCHANGED cbVars

\* L185-186: timestamp from a second reading of the clock, which may have
\* moved on since L179
ReadTime ==
    /\ pc = "time"
    /\ \E t \in {now, now + 1} :
         /\ t <= MaxNow
         /\ now' = t
         /\ filename' = <<dateFolder, TimeOf(t)>>
    /\ pc' = "ensure"
    /\ UNCHANGED <<stamp, dateFolder, dirs, files, rootExtra, deleted, segs,
                   slot, lock, streamOn, cbLive, dropJoins, cbArc, err>>
    /\ UNCHANGED cbVars

\* L122: the loop test of ensure_folder_size, called at L188; when du cannot
\* be run or reports failure, get_folder_size panics (L44-58)
EnsureCheck ==
    /\ pc = "ensure"
    /\ \/ /\ pc' = IF get_folder_size > MAX_FOLDER_SIZE THEN "delete" ELSE "create"
          /\ UNCHANGED err
       \/ /\ pc' = "exit"
          /\ err' = "du"
    /\ UNCHANGED <<now, stamp, dateFolder, filename, dirs, files, rootExtra,
                   deleted, segs, slot, lock, streamOn, cbLive, dropJoins, cbArc>>
    /\ UNCHANGED cbVars

\* the retention code with its errors logged instead of returned
DeleteOldestLogged ==
    /\ pc = "delete"
    /\ pc' = "create"
    /\ err' = "evict"
    /\ UNCHANGED <<now, stamp, dateFolder, filename, dirs, files, rootExtra,
                   deleted, segs, slot, lock, streamOn, cbLive, dropJoins, cbArc>>
    /\ UNCHANGED cbVars

\* L99-117: one pass of the retry loop of delete_oldest_file.  An error of
\* read_dir, remove_file or remove_dir is returned with `?` (L102-108),
\* again by ensure_folder_size (L124) and by main (L188), which ends.
DeleteOldest ==
    /\ pc = "delete"
    /\ \/ /\ pc' = "exit"
          /\ err' = "evict"
          /\ UNCHANGED <<dirs, files, stamp, deleted>>
       \/ /\ UNCHANGED err
          /\ IF DOMAIN dirs = {}
               THEN \* L115: "No directories found."
                    /\ pc' = "ensure"
                    /\ UNCHANGED <<dirs, files, stamp, deleted>>
               ELSE \E d \in get_oldest_directory(dirs) :
                      IF FilesIn(files, d) # {}
                        THEN \* L104: remove_file; the bucket's mtime moves to now
                             \E f \in get_oldest_file_in_directory(files, d) :
                               /\ files' = Without(files, f)
                               /\ dirs' = [dirs EXCEPT ![d] = stamp]
                               /\ stamp' = stamp + 1
                               /\ deleted' = Append(deleted,
                                      [path |-> f, mtime |-> files[f].mtime,
                                       tick |-> Len(segs), used |-> get_folder_size])
                               /\ pc' = "ensure"
                        ELSE \* L108-112: remove_dir, retry
                             /\ dirs' = Without(dirs, d)
                             /\ stamp' = stamp + 1
                             /\ pc' = "delete"
                             /\ UNCHANGED <<files, deleted>>
    /\ UNCHANGED <<now, dateFolder, filename, rootExtra, segs, slot, lock,
                   streamOn, cbLive, dropJoins, cbArc>>
    /\ UNCHANGED cbVars

\* the tick is skipped and the create tried again in the next one
retry_next_tick == "pause"
\* L191: the `?` behind WavWriter::create returns the error from main
on_create_error == "exit"

\* L190-192: WavWriter::create(&filename) and the new Arc<Mutex<Some(writer)>>;
\* File::create fails when the bucket is gone, and may fail for any other
\* I/O reason (permissions, disk full)
CreateWriter ==
    /\ pc = "create"
    /\ \E ioOk \in BOOLEAN :
       IF ~ioOk \/ filename[1] \notin DOMAIN dirs
         THEN /\ pc' = on_create_error
              /\ err' = "create"
              /\ UNCHANGED <<files, dirs, stamp, segs, slot, lock>>
         ELSE /\ UNCHANGED err
              /\ files' = With(files, filename, [mtime |-> stamp, size |-> HeaderSize])
              /\ dirs' = IF filename \in DOMAIN files THEN dirs
                         ELSE [dirs EXCEPT ![filename[1]] = stamp]
              /\ stamp' = stamp + 1
              /\ segs' = Append(segs, NewWriter(filename))
              /\ slot' = Append(slot, Some)
              /\ lock' = Append(lock, "none")
              /\ pc' = "stream"
    /\ UNCHANGED <<now, dateFolder, filename, rootExtra, deleted, streamOn,
                   cbLive, dropJoins, cbArc>>
    /\ UNCHANGED cbVars

\* L196-236: build_input_stream with the closure over writer_2, stream.play()
\* (one callback thread is modelled: a thread of the previous stream that was
\* not joined, which only ever sees its own emptied slot, has ended by now)
StartStream ==
    /\ pc = "stream"
    /\ ~cbLive
    /\ streamOn' = TRUE
    /\ cbLive' = TRUE
    /\ cbArc' = cur
    /\ pc' = "sleep"
    /\ UNCHANGED <<now, stamp, dateFolder, filename, dirs, files, rootExtra,
                   deleted, segs, slot, lock, dropJoins, err>>
    /\ UNCHANGED cbVars

\* L238: sleep(RECORD_SECONDS)
Sleep ==
    /\ pc = "sleep"
    /\ now + 1 <= MaxNow
    /\ now' = now + 1
    /\ pc' = "drop"
    /\ UNCHANGED <<stamp, dateFolder, filename, dirs, files, rootExtra,
                   deleted, segs, slot, lock, streamOn, cbLive, dropJoins, cbArc, err>>
    /\ UNCHANGED cbVars

\* L239 moved behind L240: the stream is still playing when main goes on
DropStreamLate ==
    /\ pc = "drop"
    /\ pc' = "lock"
    /\ UNCHANGED <<now, stamp, dateFolder, filename, dirs, files, rootExtra,
                   deleted, segs, slot, lock, streamOn, cbLive, dropJoins, cbArc, err>>
    /\ UNCHANGED cbVars

\* L239: drop(stream).  A backend that joins its thread returns once the
\* invocation in flight is over; another lets the thread wind down later.
DropStream ==
    /\ pc = "drop"
    /\ streamOn' = FALSE
    /\ IF dropJoins
         THEN cbPc = "idle" /\ cbLive' = FALSE
         ELSE UNCHANGED cbLive
    /\ pc' = "lock"
    /\ UNCHANGED <<now, stamp, dateFolder, filename, dirs, files, rootExtra,
                   deleted, segs, slot, lock, dropJoins, cbArc, err>>
    /\ UNCHANGED cbVars

\* main going on to take the writer without waiting for the mutex
LockWriterNoWait ==
    /\ pc = "lock"
    /\ lock' = [lock EXCEPT ![cur] = "main"]
    /\ pc' = "finalize"
    /\ UNCHANGED <<now, stamp, dateFolder, filename, dirs, files, rootExtra,
                   deleted, segs, slot, streamOn, cbLive, dropJoins, cbArc, err>>
    /\ UNCHANGED cbVars

\* L240: writer.lock().unwrap(), a blocking acquire
LockWriter ==
    /\ pc = "lock"
    /\ lock[cur] = "none"
    /\ lock' = [lock EXCEPT ![cur] = "main"]
    /\ pc' = "finalize"
    /\ UNCHANGED <<now, stamp, dateFolder, filename, dirs, files, rootExtra,
                   deleted, segs, slot, streamOn, cbLive, dropJoins, cbArc, err>>
    /\ UNCHANGED cbVars

\* hound's finalize: the header gets the final counts, the file is closed
finalize_keep_open(w) == [w EXCEPT !.fin = @ + 1]
finalize(w) == [w EXCEPT !.state = "Finalized", !.fin = @ + 1]

\* the Option left in the slot by take()
peek(o) == o
take(o) == None

\* L240: .take().unwrap().finalize()?; the guard is released at the end of
\* the statement
Finalize ==
    /\ pc = "finalize"
    /\ IF slot[cur] = Some
         THEN /\ slot' = [slot EXCEPT ![cur] = take(@)]
              /\ segs' = [segs EXCEPT ![cur] = finalize(@)]
              /\ files' = IF segs[cur].path \in DOMAIN files
                            THEN [files EXCEPT ![segs[cur].path] =
                                    [mtime |-> stamp,
                                     size |-> HeaderSize + Len(segs[cur].samples)]]
                            ELSE files
              /\ stamp' = stamp + 1
              /\ pc' = "pause"
         ELSE \* unwrap() on None panics
              /\ pc' = "exit"
              /\ UNCHANGED <<slot, segs, files, stamp>>
    /\ lock' = [lock EXCEPT ![cur] = "none"]
    /\ UNCHANGED <<now, dateFolder, filename, dirs, rootExtra, deleted,
                   streamOn, cbLive, dropJoins, cbArc, err>>
    /\ UNCHANGED cbVars

\* L243: sleep(1 s)
Pause ==
    /\ pc = "pause"
    /\ pc' = "date"
    /\ UNCHANGED <<now, stamp, dateFolder, filename, dirs, files, rootExtra,
                   deleted, segs, slot, lock, streamOn, cbLive, dropJoins, cbArc, err>>
    /\ UNCHANGED cbVars

\* -------------------------------------------- the stream's callback thread
\* the thread of a dropped stream that was not joined ends between two
\* invocations
ThreadExit ==
    /\ cbLive
    /\ ~streamOn
    /\ cbPc = "idle"
    /\ cbLive' = FALSE
    /\ UNCHANGED mainVars
    /\ UNCHANGED <<segs, slot, lock, streamOn, dropJoins, cbArc>>
    /\ UNCHANGED cbVars

\* Mutex::lock, which parks the caller while the mutex is held
blocking_lock(holder) == IF holder = "none" THEN "acquired" ELSE "wait"
\* L271: Mutex::try_lock
try_lock(holder) == IF holder = "none" THEN "acquired" ELSE "wouldblock"

\* L266-271: the device hands write_input_data a frame
CbInvoke ==
    /\ cbLive
    /\ cbPc = "idle"
    /\ nextFrame <= MaxFrames
    /\ nextFrame' = nextFrame + 1
    /\ LET r == try_lock(lock[cbArc]) IN
         CASE r = "acquired" ->
                /\ lock' = [lock EXCEPT ![cbArc] = "cb"]
                /\ cbPc' = "locked"
                /\ cbFrame' = nextFrame
                /\ cbIdx' = 1
                /\ UNCHANGED dropped
           [] r = "wouldblock" ->
                /\ dropped' = dropped \cup {<<nextFrame, "busy">>}
                /\ UNCHANGED <<lock, cbPc, cbFrame, cbIdx>>
           [] OTHER ->
                /\ cbPc' = "waiting"
                /\ cbFrame' = nextFrame
                /\ UNCHANGED <<lock, cbIdx, dropped>>
    /\ UNCHANGED mainVars
    /\ UNCHANGED <<segs, slot, streamOn, cbLive, dropJoins, cbArc>>

\* L274: U::from_sample(sample); all four instantiations (L207-225) have
\* U = T, for which the conversion returns its argument
from_sample(x) == x

\* a writer that puts every sample into the file twice
write_sample_twice(samples, x) == samples \o <<x, x>>
\* L275: writer.write_sample(sample)
write_sample(samples, x) == Append(samples, x)

\* L272-276: one turn of the loop over input, with the guard held
CbWrite ==
    /\ cbPc = "locked"
    /\ slot[cbArc] = Some
    /\ cbIdx <= FrameLen
    /\ segs' = [segs EXCEPT ![cbArc].samples = write_sample(@, from_sample(<<cbFrame, cbIdx>>))]
    /\ cbIdx' = cbIdx + 1
    /\ UNCHANGED mainVars
    /\ UNCHANGED <<slot, lock, streamOn, cbLive, dropJoins, cbArc, cbPc,
                   cbFrame, nextFrame, dropped>>

\* the invocation ends but its guard is leaked, the mutex stays locked
CbReturnKeepGuard ==
    /\ cbPc = "locked"
    /\ slot[cbArc] = None \/ cbIdx > FrameLen
    /\ cbPc' = "idle"
    /\ UNCHANGED mainVars
    /\ UNCHANGED <<segs, slot, lock, streamOn, cbLive, dropJoins, cbArc, cbFrame,
                   cbIdx, nextFrame, dropped>>

\* L277-279: the guard goes out of scope; with None in the slot nothing was
\* written
CbReturn ==
    /\ cbPc = "locked"
    /\ slot[cbArc] = None \/ cbIdx > FrameLen
    /\ lock' = [lock EXCEPT ![cbArc] = "none"]
    /\ cbPc' = "idle"
    /\ dropped' = IF slot[cbArc] = None
                    THEN dropped \cup {<<cbFrame, "empty">>} ELSE dropped
    /\ UNCHANGED mainVars
    /\ UNCHANGED <<segs, slot, streamOn, cbLive, dropJoins, cbArc, cbFrame,
                   cbIdx, nextFrame>>

\* L239-243, L179-234: between drop(stream) and the next stream the process
\* has no input stream; what the device produces meanwhile, once a first
\* stream has played, reaches no callback
DeviceFrameUncaptured ==
    /\ ~cbLive
    /\ cbArc # 0
    /\ pc # "exit"
    /\ nextFrame <= MaxFrames
    /\ nextFrame' = nextFrame + 1
    /\ dropped' = dropped \cup {<<nextFrame, "nostream">>}
    /\ UNCHANGED mainVars
    /\ UNCHANGED <<segs, slot, lock, streamOn, cbLive, dropJoins, cbArc, cbPc,
                   cbFrame, cbIdx>>

MainStep ==
    \/ ReadDate \/ ReadTime \/ EnsureCheck \/ DeleteOldest \/ CreateWriter
    \/ StartStream \/ Sleep \/ DropStream \/ LockWriter \/ Finalize \/ Pause

CallbackStep == ThreadExit \/ CbInvoke \/ CbWrite \/ CbReturn

Next == MainStep \/ CallbackStep \/ DeviceFrameUncaptured

Spec == Init /\ [][Next]_vars

\* main runs whenever it can; the callback thread gives the mutex back
FairSpec == Spec /\ WF_vars(MainStep) /\ WF_vars(CbWrite \/ CbReturn \/ ThreadExit)

\* ------------------------------------------------------------- properties
Removed == (DOMAIN files) \ (DOMAIN files')
Recording == {"stream", "sleep", "drop", "lock", "finalize"}

\* C1: in every reachable state at most one segment is Open; a writer is
\* never created while an earlier one is still un-finalized.
AtMostOneOpen == Cardinality(OpenSegs) <= 1
\* a second segment is Open after the first was finalized
SecondOpenAfterFirstFinalized ==
    /\ Len(segs) >= 2
    /\ segs[1].state = "Finalized"
    /\ segs[2].state = "Open"

FinalizedIsFinal ==
    /\ [](\A i \in 1..Len(segs) :
            /\ segs[i].fin <= 1
            /\ (segs[i].state = "Finalized") <=> (segs[i].fin = 1))
    /\ [][\A i \in 1..Len(segs) :
            segs[i].state = "Finalized" => (i <= Len(segs') /\ segs'[i] = segs[i])]_vars
\* an invocation holds the guard of a finalized segment and finds None
CallbackAfterFinalize ==
    /\ cbPc = "locked"
    /\ slot[cbArc] = None
    /\ segs[cbArc].state = "Finalized"

\* C4: no file removed by the retention code is the file of a segment that
\* is Open at that moment.
NeverDeletesOpenFile ==
    [][\A p \in Removed : \A i \in OpenSegs : segs[i].path # p]_vars
\* retention has removed the file of a segment recorded in this run
DeletedOwnSegment ==
    \E k \in 1..Len(deleted), i \in 1..Len(segs) :
        deleted[k].path = segs[i].path /\ deleted[k].tick >= i

\* C5 as stated: every file removed is, when removed, the oldest file by
\* mtime of the whole tree.
DeletesGloballyOldest ==
    [][\A p \in Removed : \A q \in DOMAIN files :
          files[p].mtime <= files[q].mtime]_vars

\* C6 as stated: no file of a bucket is removed while another bucket still
\* holds files all strictly older than every file of that bucket, and a
\* bucket emptied by the enforcement is gone before the next lookup.
StrictlyOlder(e, d) ==
    /\ FilesIn(files, e) # {}
    /\ \A x \in FilesIn(files, e), y \in FilesIn(files, d) :
          files[x].mtime < files[y].mtime
BucketByBucket ==
    /\ [][\A p \in Removed : \A e \in (DOMAIN dirs) \ {p[1]} :
            ~StrictlyOlder(e, p[1])]_vars
    /\ [](  (/\ pc = "delete"
             /\ deleted # <<>>
             /\ deleted[Len(deleted)].tick = Len(segs)
             /\ FilesIn(files, deleted[Len(deleted)].path[1]) = {})
          => deleted[Len(deleted)].path[1] \notin DOMAIN dirs)

\* C7 as stated: the enforcement loop always returns, also when usage is
\* above the quota and no bucket is left under the root.
EnforcementTerminates == (pc = "ensure") ~> (pc \in {"create", "exit"})

\* C8 as stated: no file is removed while usage is already <= quota.
DeletesOnlyAboveQuota ==
    [][Removed # {} => get_folder_size > MAX_FOLDER_SIZE]_vars

\* C9: when a segment is finalized main has dropped its stream, no
\* invocation holds the guard of that segment, and no sample is appended to
\* the segment afterwards.
StopBeforeFinalize ==
    /\ [][\A i \in 1..Len(segs) :
            (segs[i].state = "Open" /\ i <= Len(segs') /\ segs'[i].state = "Finalized")
              => (~streamOn /\ ~(cbPc = "locked" /\ cbArc = i))]_vars
    /\ [][\A i \in 1..Len(segs) :
            segs[i].state = "Finalized" => segs'[i].samples = segs[i].samples]_vars
\* a segment that received samples was stopped and then finalized
StoppedThenFinalized ==
    /\ pc = "pause"
    /\ ~streamOn
    /\ segs[cur].state = "Finalized"
    /\ segs[cur].samples # <<>>

\* C10: the callback never waits for the mutex; an invocation that meets a
\* held mutex returns at once, and one that finds None in the slot returns,
\* both having written nothing.
CallbackNeverWaits ==
    /\ [](cbPc # "waiting")
    /\ [][(cbLive /\ nextFrame' # nextFrame /\ lock[cbArc] # "none")
            => /\ cbPc' = "idle"
               /\ segs' = segs
               /\ lock' = lock
               /\ <<nextFrame, "busy">> \in dropped']_vars
    /\ [][(cbPc = "locked" /\ slot[cbArc] = None)
            => /\ segs'[cbArc] = segs[cbArc]
               /\ cbIdx' = cbIdx
               /\ (cbPc' # cbPc => (cbPc' = "idle" /\ <<cbFrame, "empty">> \in dropped'))]_vars
\* a frame arrived while main held the mutex and was dropped
DroppedOnContention == \E x \in dropped : x[2] = "busy" /\ pc \in {"finalize", "pause"}

\* ---------------------------------------------------- frames and segments
Frames == 1..MaxFrames
Delivered == 1..(nextFrame - 1)
SegsHolding(f) ==
    {i \in 1..Len(segs) : \E k \in 1..Len(segs[i].samples) : segs[i].samples[k][1] = f}
CountOf(f, i) ==
    Cardinality({k \in 1..Len(segs[i].samples) : segs[i].samples[k][1] = f})
InFlight(f) == cbPc = "locked" /\ cbFrame = f
Whole(f) == \E i \in SegsHolding(f) : CountOf(f, i) = FrameLen
DroppedAs(f, why) == <<f, why>> \in dropped

FrameOrder(i) ==
    \A k \in 1..Len(segs[i].samples), l \in 1..Len(segs[i].samples) :
        k < l => segs[i].samples[k][1] <= segs[i].samples[l][1]
SamplesWellFormed(i) ==
    LET sm == segs[i].samples IN
    \A k \in 1..Len(sm) :
        /\ sm[k][2] \in 1..FrameLen
        /\ sm[k] = from_sample(sm[k])
        /\ sm[k][2] > 1 => (k > 1 /\ sm[k - 1] = <<sm[k][1], sm[k][2] - 1>>)
        /\ (sm[k][2] = 1 /\ k > 1)
              => (sm[k - 1][2] = FrameLen /\ sm[k - 1][1] < sm[k][1])
        /\ (k = Len(sm) /\ sm[k][2] < FrameLen)
              => (InFlight(sm[k][1]) /\ cbArc = i /\ cbIdx = sm[k][2] + 1)
BucketExistsAtCreate == pc = "create" => filename[1] \in DOMAIN dirs

\* C17 as stated: every segment gets a path distinct from all earlier
\* segments' paths.
DistinctPaths ==
    \A i \in 1..Len(segs), j \in 1..Len(segs) : i < j => segs[i].path # segs[j].path

\* C18: when main reaches lock/take/finalize the slot holds the writer; the
\* mutex is then free or held by a running invocation that can go on and
\* release it; only main's finalize step ever empties a slot.
TakeFindsWriter ==
    /\ [](pc \in {"lock", "finalize"} => slot[cur] = Some)
    /\ [](pc = "finalize" => lock[cur] = "main")
    /\ []((pc = "lock" /\ lock[cur] # "none")
            => (lock[cur] = "cb" /\ cbPc = "locked" /\ cbArc = cur))
    /\ [](cbPc = "locked" => ENABLED (CbWrite \/ CbReturn))
    /\ [][\A i \in 1..Len(slot) :
            (slot[i] = Some /\ slot'[i] = None)
              => (pc = "finalize" /\ i = cur /\ pc' = "pause")]_vars
\* main is about to take the writer of the second segment
SecondTakeFindsWriter == pc = "finalize" /\ cur = 2 /\ slot[cur] = Some

\* C19: with a drop(stream) that joins the callback thread, main finds the
\* mutex free at L240, every invocation acquires it and finds the writer,
\* and no frame handed to the callback is dropped.
NoDropWhenDropJoins ==
    /\ [](dropJoins => \A x \in dropped : x[2] = "nostream")
    /\ []((dropJoins /\ pc = "lock") => (lock[cur] = "none" /\ cbPc = "idle"))
    /\ [][(dropJoins /\ cbLive /\ nextFrame' # nextFrame)
            => (slot[cbArc] = Some /\ cbPc' = "locked")]_vars
\* joined stream: a frame was recorded whole and its segment finalized
RecordedWithoutDrop ==
    /\ dropJoins
    /\ Len(segs) >= 1
    /\ segs[1].state = "Finalized"
    /\ Whole(1)
    /\ \A x \in dropped : x[2] = "nostream"

====
